---- MODULE Spec2Model ----
(***************************************************************************)
(* A model of the justtcg-js client library: the response normalizer       *)
(* (handleResponse), the transport call (HttpClient.get), the single-page  *)
(* fetch (SetsResource.list), the pagination driver                        *)
(* (SetsResource.fetchAll, an async generator), the construction of the    *)
(* client (JustTCG) and the serialization of call parameters               *)
(* (BaseResource._get, HttpClient.get, HttpClient.post).                   *)
(*                                                                         *)
(* Encoding of JavaScript values.  An object is a function from its keys   *)
(* to their values; a property whose value is undefined is a key outside   *)
(* the DOMAIN.  Arrays are sequences.  The elements of a data array (the   *)
(* Set objects) are opaque to the library and are numbered 1, 2, 3, ...    *)
(***************************************************************************)
EXTENDS Integers, Sequences, FiniteSets, TLC

VARIABLES
    server,     \* the remote API: a scripted list of pages, or a store of sets
    params,     \* the object the caller passed to fetchAll
    gen,        \* the frame of the fetchAll generator
    requests,   \* every call of HttpClient.get so far, in order
    received,   \* the elements the consumer has been handed, in order
    consumer,   \* what the consumer is doing and how its last pull ended
    envelope,   \* the raw envelope given to handleResponse (normalizer runs)
    result,     \* what handleResponse did with it
    env,        \* process.env
    clients,    \* the JustTCG constructions made so far, by instance
    network,    \* every call of fetch so far, in order
    call,       \* the operation a caller has invoked last, and its objects
    other,      \* a second fetchAll iteration, suspended while the first runs
    history     \* the calls of handleResponse so far: input, output, input after

clientVars == <<env, clients, network, call>>

vars == <<server, params, gen, requests, received, consumer, envelope, result,
          env, clients, network, call, other, history>>

(***************************************************************************)
(* Bounds of the model.                                                    *)
(***************************************************************************)
MaxPages == 3      \* pages in a scripted server
MaxData == 2       \* elements in one scripted page
MaxT == 205        \* sets held by a store server
MaxUsed == 2       \* requests already counted in a usage block

MaxRequests == MaxPages + 2   \* cap on the page requests of one iteration

(***************************************************************************)
(* Small helpers.                                                          *)
(***************************************************************************)
Min(a, b) == IF a < b THEN a ELSE b

Has(o, k) == k \in DOMAIN o

\* the one-key object {nk: o[k]} when o has k, the empty object otherwise
Opt(o, k, nk) == IF Has(o, k) THEN (nk :> o[k]) ELSE <<>>

Return(v) == [threw |-> FALSE, value |-> v]
Throw(e) == [threw |-> TRUE, error |-> e]

Error(name, message) == [name |-> name, message |-> message]
NoError == Error("none", "")

(***************************************************************************)
(* The response normalizer.                                                *)
(***************************************************************************)
\* usage: the four counters handleResponse reads from _metadata
UsageOf(metadata) ==
    Opt(metadata, "apiRequestLimit", "apiRequestLimit")
    @@ Opt(metadata, "apiRequestsRemaining", "apiRequestsRemaining")
    @@ Opt(metadata, "apiRequestsUsed", "apiRequestsUsed")
    @@ Opt(metadata, "apiPlan", "apiPlan")

\* limit and offset taken from each other's field
PaginationOf_Swapped(meta) ==
    Opt(meta, "total", "total")
    @@ Opt(meta, "offset", "limit")
    @@ Opt(meta, "limit", "offset")
    @@ Opt(meta, "hasMore", "hasMore")

\* pagination: meta copied field by field
PaginationOf(meta) ==
    Opt(meta, "total", "total")
    @@ Opt(meta, "limit", "limit")
    @@ Opt(meta, "offset", "offset")
    @@ Opt(meta, "hasMore", "hasMore")

\* a string is truthy when it is not empty
Truthy(o, k) == Has(o, k) /\ o[k] # ""

\* a normalizer that builds a pagination block for every envelope
handleResponse_PaginationAlways(rawResponse) ==
    IF ~Has(rawResponse, "_metadata")
    THEN Throw(Error("TypeError", "Cannot read properties of undefined"))
    ELSE Return(
            Opt(rawResponse, "data", "data")
            @@ ("pagination" :> (IF Has(rawResponse, "meta")
                                 THEN PaginationOf(rawResponse.meta) ELSE <<>>))
            @@ ("usage" :> UsageOf(rawResponse._metadata)))

handleResponse(rawResponse) ==
    IF ~Has(rawResponse, "_metadata")
    THEN Throw(Error("TypeError", "Cannot read properties of undefined"))
    ELSE Return(
            Opt(rawResponse, "data", "data")
            @@ (IF Has(rawResponse, "meta")
                THEN ("pagination" :> PaginationOf(rawResponse.meta))
                ELSE <<>>)
            @@ ("usage" :> UsageOf(rawResponse._metadata))
            @@ (IF Truthy(rawResponse, "error")
                THEN ("error" :> rawResponse.error) ELSE <<>>)
            @@ (IF Truthy(rawResponse, "code")
                THEN ("code" :> rawResponse.code) ELSE <<>>))

(***************************************************************************)
(* The transport call.  A fetch either rejects (network error) or settles  *)
(* with a response that has a status class (ok) and a body that is JSON    *)
(* or is not.                                                              *)
(***************************************************************************)
FetchRejects(e) == [rejects |-> TRUE, error |-> e]
FetchSettles(ok, json, body) == [rejects |-> FALSE, ok |-> ok, json |-> json, body |-> body]

SyntaxError == Error("SyntaxError", "Unexpected token in JSON")
NetworkError == Error("TypeError", "fetch failed")

\* response.json()
Json(response) == IF response.json THEN Return(response.body) ELSE Throw(SyntaxError)

\* a transport call that does not look at the status
HttpClient_get_Unchecked(fetched) ==
    IF fetched.rejects THEN Throw(fetched.error) ELSE Json(fetched)

\* HttpClient.get from the point where fetch settles
HttpClient_get(fetched) ==
    IF fetched.rejects THEN Throw(fetched.error)
    ELSE IF ~fetched.ok
         THEN IF Json(fetched).threw THEN Json(fetched)
              ELSE Throw(Error("Error",
                        IF Truthy(Json(fetched).value, "error")
                        THEN Json(fetched).value.error
                        ELSE "An API error occurred"))
         ELSE Json(fetched)

Request(path, ps) == [method |-> "GET", path |-> path, params |-> ps]

\* resources built without a prefix
pathPrefix_None == ""

pathPrefix == "/v1"

\* SetsResource.list up to the transport call
SetsResource_list_request(ps) == Request(pathPrefix \o "/sets", ps)

\* SetsResource.list from the point where the transport call settles
SetsResource_list(fetched) ==
    IF HttpClient_get(fetched).threw THEN HttpClient_get(fetched)
    ELSE handleResponse(HttpClient_get(fetched).value)

(***************************************************************************)
(* The remote API.  A scripted server answers the k-th request with the    *)
(* k-th page of its script (as the mocked transport of the tests does) and *)
(* repeats its last page when asked beyond it.  A page of the script is    *)
(* [kind, n, meta]: what kind of answer it is, how many elements its data  *)
(* array holds, and what its meta block says.                              *)
(***************************************************************************)
MetaKinds == {"none", "more", "last", "noHasMore"}

OkPages == [kind : {"ok"}, n : 0..MaxData, meta : MetaKinds]
\* HTTP 2xx with error and code populated and an empty data array
ApiErrorPages == [kind : {"apiError"}, n : {0}, meta : {"none", "more"}]
\* the same without a usage block
BareErrorPages == [kind : {"bareError"}, n : {0}, meta : {"none"}]
\* a non-2xx status, and a fetch that rejects
FailPages == [kind : {"http", "network"}, n : {0}, meta : {"none"}]

Pages == OkPages \cup ApiErrorPages \cup BareErrorPages \cup FailPages

Scripts == UNION {[1..len -> Pages] : len \in 1..MaxPages}

RECURSIVE ElementsBefore(_, _)
ElementsBefore(ps, p) == IF p <= 1 THEN 0 ELSE ElementsBefore(ps, p - 1) + ps[p - 1].n

ScriptTotal(ps) == ElementsBefore(ps, Len(ps) + 1)

\* the server's own page size: the largest page of the script
ScriptPageSize(ps) ==
    CHOOSE m \in {ps[q].n : q \in 1..Len(ps)} : \A q \in 1..Len(ps) : ps[q].n <= m

PageData(ps, p) == [j \in 1..ps[p].n |-> ElementsBefore(ps, p) + j]

PageMeta(ps, p) ==
    [total |-> ScriptTotal(ps), limit |-> ScriptPageSize(ps), offset |-> ElementsBefore(ps, p)]
    @@ (CASE ps[p].meta = "more" -> [hasMore |-> TRUE]
          [] ps[p].meta = "last" -> [hasMore |-> FALSE]
          [] OTHER -> <<>>)

\* the usage block the server sends with its k-th answer
Metadata(k) ==
    [apiRequestsUsed |-> k, apiRequestsRemaining |-> 1000 - k,
     apiRequestLimit |-> 1000, apiPlan |-> "Free"]

MissingGame == "Required query parameter \"game\" is missing"

PageEnvelope(ps, p, k) ==
    [data |-> PageData(ps, p)]
    @@ (IF ps[p].meta = "none" THEN <<>> ELSE [meta |-> PageMeta(ps, p)])
    @@ (IF ps[p].kind = "bareError" THEN <<>> ELSE [_metadata |-> Metadata(k)])
    @@ (IF ps[p].kind \in {"apiError", "bareError"}
        THEN [error |-> MissingGame, code |-> "INVALID_REQUEST"] ELSE <<>>)

PageFetch(ps, p, k) ==
    CASE ps[p].kind = "network" -> FetchRejects(NetworkError)
      [] ps[p].kind = "http" -> FetchSettles(FALSE, TRUE, [error |-> "Rate limit exceeded"])
      [] OTHER -> FetchSettles(TRUE, TRUE, PageEnvelope(ps, p, k))

(***************************************************************************)
(* A store server holds the sets 1..T of a game and answers a request      *)
(* (limit, offset) with the slice that starts after offset and has at most *)
(* min(limit, serverMax) sets; hasMore says whether sets remain after it.  *)
(***************************************************************************)
ServerMaxes == {20, 100, 200}

StoreSlice(T, serverMax, req) ==
    LET n == Min(req.params.limit, serverMax)
        off == req.params.offset
        len == IF off >= T THEN 0 ELSE Min(n, T - off)
    IN [data |-> [j \in 1..len |-> off + j],
        meta |-> [total |-> T, limit |-> n, offset |-> off, hasMore |-> off + n < T]]

StoreFetch(T, serverMax, req, k) ==
    FetchSettles(TRUE, TRUE, StoreSlice(T, serverMax, req) @@ [_metadata |-> Metadata(k)])

\* what the transport call for the k-th request, req, settles with
ServerAnswer(srv, req, k) ==
    CASE srv.kind = "script" -> PageFetch(srv.pages, Min(k, Len(srv.pages)), k)
      [] srv.kind = "paged" ->
            PageFetch(srv.pages, Min(req.params.offset \div 100 + 1, Len(srv.pages)), k)
      [] OTHER -> StoreFetch(srv.T, srv.serverMax, req, k)

(***************************************************************************)
(* The pagination driver, SetsResource.fetchAll.  The generator's frame    *)
(* is gen: pc is where it is suspended ("start": created and not yet       *)
(* pulled, "await": inside await this.list(...), "yield": at the yield of  *)
(* response.data[i], "completed"), offset and hasMore are its locals,      *)
(* response is the page it is iterating, and completion records how it     *)
(* ended ("return": fell off the loop, "throw": an error escaped, "break": *)
(* the consumer closed it).                                                *)
(***************************************************************************)
limit == 100

NoResponse == <<>>

\* const limit = 100; let offset = 0; let hasMore = true;
GenStart ==
    [pc |-> "start", offset |-> 0, hasMore |-> TRUE, response |-> NoResponse, i |-> 0,
     completion |-> "none"]

\* a generator that an escaping error leaves where it can be resumed
GenCompleted_Resumable(g, how) ==
    IF how = "throw"
    THEN [g EXCEPT !.pc = "start", !.response = NoResponse, !.i = 0, !.completion = how]
    ELSE [g EXCEPT !.pc = "completed", !.response = NoResponse, !.i = 0, !.completion = how]

GenCompleted(g, how) ==
    [g EXCEPT !.pc = "completed", !.response = NoResponse, !.i = 0, !.completion = how]

\* { ...params, limit, offset }
PageParams(ps, offset) == [limit |-> limit, offset |-> offset] @@ ps

\* a loop guard that passes over a page of one element
HasData_MoreThanOne(response) == Has(response, "data") /\ Len(response.data) > 1

\* response.data && response.data.length > 0
HasData(response) == Has(response, "data") /\ Len(response.data) > 0

\* a driver that takes the first page for the whole collection
HasMoreOf_Never(response) == FALSE

\* a driver that goes on when the page does not say
HasMoreOf_DefaultTrue(response) ==
    IF Has(response, "pagination") /\ Has(response.pagination, "hasMore")
    THEN response.pagination.hasMore
    ELSE TRUE

\* a driver that takes an empty page for the end
HasMoreOf_OnlyWithData(response) ==
    /\ HasData(response)
    /\ Has(response, "pagination") /\ Has(response.pagination, "hasMore")
    /\ response.pagination.hasMore

\* a driver that reads the flag the wrong way round
HasMoreOf_Negated(response) ==
    IF Has(response, "pagination") /\ Has(response.pagination, "hasMore")
    THEN ~response.pagination.hasMore
    ELSE FALSE

\* a driver that never believes it has reached the end
HasMoreOf_Always(response) == TRUE

\* response.pagination?.hasMore ?? false
HasMoreOf(response) ==
    IF Has(response, "pagination") /\ Has(response.pagination, "hasMore")
    THEN response.pagination.hasMore
    ELSE FALSE

\* a cursor that counts pages instead of elements
NextOffset_PageNumber(offset) == offset + 1

\* offset += limit
NextOffset(offset) == offset + limit

Idle(last, e) == [state |-> "idle", last |-> last, error |-> e]
Pending == [state |-> "pending", last |-> "none", error |-> NoError]

\* const response = await this.list({ ...params, limit, offset }): the call
CallList(g) ==
    /\ Len(requests) < MaxRequests
    /\ requests' = Append(requests, SetsResource_list_request(PageParams(params, g.offset)))
    /\ gen' = [g EXCEPT !.pc = "await", !.response = NoResponse, !.i = 0]
    /\ consumer' = Pending
    /\ UNCHANGED received

\* a driver that requests the next page while it hands out the last element
\* of the page before
YieldCalls_Prefetch(ps, g, response, i) ==
    IF i = Len(response.data) /\ Has(response, "pagination") /\ Has(response.pagination, "hasMore")
          /\ response.pagination.hasMore
    THEN <<[method |-> "GET", path |-> "/v1/sets",
            params |-> [limit |-> 100, offset |-> g.offset + 100] @@ ps]>>
    ELSE <<>>

\* a driver that requests the next page as soon as it has the first element
\* of a page in hand
YieldCalls_Eager(ps, g, response, i) ==
    IF i = 1 /\ Has(response, "pagination") /\ Has(response.pagination, "hasMore")
          /\ response.pagination.hasMore
    THEN <<[method |-> "GET", path |-> "/v1/sets",
            params |-> [limit |-> 100, offset |-> g.offset + 100] @@ ps]>>
    ELSE <<>>

\* for (const set of response.data) { yield set; }: the loop body calls
\* nothing, so handing out the element at index i issues no request
YieldCalls(ps, g, response, i) == <<>>

\* yield set, for the element at index i of the page
Yield(g, response, i) ==
    /\ gen' = [g EXCEPT !.pc = "yield", !.response = response, !.i = i]
    /\ received' = Append(received, response.data[i])
    /\ consumer' = Idle("value", NoError)
    /\ requests' = requests \o YieldCalls(params, g, response, i)

\* hasMore = ...; offset += limit; } while (hasMore);
EndOfPage(g, response) ==
    LET after == [g EXCEPT !.hasMore = HasMoreOf(response), !.offset = NextOffset(g.offset)]
    IN IF after.hasMore
       THEN CallList(after)
       ELSE /\ gen' = GenCompleted(after, "return")
            /\ consumer' = Idle("done", NoError)
            /\ UNCHANGED <<requests, received>>

\* The consumer calls next() on the sequence.
Pull ==
    /\ consumer.state = "idle"
    /\ CASE gen.pc = "start" -> CallList(gen)
         [] gen.pc = "yield" ->
                IF gen.i < Len(gen.response.data)
                THEN Yield(gen, gen.response, gen.i + 1)
                ELSE EndOfPage(gen, gen.response)
         [] OTHER ->
                /\ consumer' = Idle("done", NoError)
                /\ UNCHANGED <<gen, requests, received>>
    /\ UNCHANGED <<server, params, envelope, result, clientVars, other, history>>

\* The transport call of the page in flight settles and the generator runs on.
Respond ==
    /\ gen.pc = "await"
    /\ LET k == Len(requests)
           page == SetsResource_list(ServerAnswer(server, requests[k], k))
       IN IF page.threw
          THEN /\ gen' = GenCompleted(gen, "throw")
               /\ consumer' = Idle("thrown", page.error)
               /\ UNCHANGED <<requests, received>>
          ELSE IF HasData(page.value)
               THEN Yield(gen, page.value, 1)
               ELSE EndOfPage(gen, page.value)
    /\ UNCHANGED <<server, params, envelope, result, clientVars, other, history>>

\* The consumer leaves its loop: return() closes the generator.
Break ==
    /\ consumer.state = "idle"
    /\ gen.pc \in {"start", "yield"}
    /\ gen' = GenCompleted(gen, "break")
    /\ consumer' = [state |-> "stopped", last |-> consumer.last, error |-> consumer.error]
    /\ UNCHANGED <<server, params, requests, received, envelope, result, clientVars, other, history>>

Games == {"Pokemon"}

NoEnvelope == <<>>
NoResult == <<>>

\* the instances of JustTCG a program constructs
Instances == {1, 2}

NoClient == <<>>
NoCall == <<>>

\* no environment variable, no client constructed, nothing sent
ClientIdle ==
    /\ env = <<>>
    /\ clients = [i \in Instances |-> NoClient]
    /\ network = <<>>
    /\ call = NoCall

NoIteration == <<>>

\* one iteration, no call of handleResponse on record
Alone ==
    /\ other = NoIteration
    /\ history = <<>>

DriverInit ==
    /\ gen = GenStart
    /\ requests = <<>>
    /\ received = <<>>
    /\ consumer = Idle("none", NoError)
    /\ params \in [game : Games]

Init ==
    /\ server \in [kind : {"script"}, pages : Scripts]
    /\ DriverInit
    /\ envelope = NoEnvelope
    /\ result = NoResult
    /\ ClientIdle
    /\ Alone

Next == Pull \/ Respond \/ Break

Spec == Init /\ [][Next]_vars

InitStore ==
    /\ server \in [kind : {"store"}, T : 0..MaxT, serverMax : ServerMaxes]
    /\ DriverInit
    /\ envelope = NoEnvelope
    /\ result = NoResult
    /\ ClientIdle
    /\ Alone

SpecStore == InitStore /\ [][Next]_vars

(***************************************************************************)
(* Runs of the normalizer alone: handleResponse applied to raw envelopes   *)
(* drawn from a bounded set.  An envelope may lack any of its blocks; a    *)
(* meta block may lack hasMore; a usage block is the four-counter block of *)
(* the tests or the eight-field block of UsageMeta.                        *)
(***************************************************************************)
FullMetadata(used) ==
    [apiRequestLimit |-> 1000, apiDailyLimit |-> 100, apiRateLimit |-> 10,
     apiRequestsUsed |-> used, apiDailyRequestsUsed |-> used + 1,
     apiRequestsRemaining |-> 1000 - used, apiDailyRequestsRemaining |-> 99 - used,
     apiPlan |-> "Free Tier"]

Metas ==
    [total : {2, 3}, limit : {1, 20}, offset : {0, 1}, hasMore : BOOLEAN]
    \cup [total : {2, 3}, limit : {1, 20}, offset : {0, 1}]

Metadatas == {Metadata(u) : u \in 0..MaxUsed} \cup {FullMetadata(u) : u \in 0..MaxUsed}

\* the objects that have the key k with a value of vs, or lack it
Optional(k, vs) == {<<>>} \cup {(k :> v) : v \in vs}

Envelopes ==
    {d @@ m @@ u @@ e @@ c :
        d \in Optional("data", {<<>>, <<1>>}),
        m \in Optional("meta", Metas),
        u \in Optional("_metadata", Metadatas),
        e \in Optional("error", {"", MissingGame}),
        c \in Optional("code", {"", "INVALID_REQUEST"})}

IdleServer == [kind |-> "script", pages |-> <<[kind |-> "ok", n |-> 0, meta |-> "none"]>>]

\* A caller hands the envelope to handleResponse.
Normalize ==
    /\ result' = handleResponse(envelope)
    /\ UNCHANGED <<server, params, gen, requests, received, consumer, envelope, clientVars, other, history>>

InitNormalize ==
    /\ server = IdleServer
    /\ DriverInit
    /\ envelope \in Envelopes
    /\ result = NoResult
    /\ ClientIdle
    /\ Alone

NextNormalize == Normalize

SpecNormalize == InitNormalize /\ [][NextNormalize]_vars

(***************************************************************************)
(* Properties of the pagination driver.                                    *)
(***************************************************************************)
Script == server.pages

RECURSIVE ConcatData(_, _)
\* the data arrays of the first n pages of a script, one after the other
ConcatData(ps, n) == IF n = 0 THEN <<>> ELSE ConcatData(ps, n - 1) \o PageData(ps, n)

IsPrefix(s, t) == Len(s) <= Len(t) /\ \A j \in 1..Len(s) : s[j] = t[j]

\* page N is the first page of the script that reports hasMore = false
FirstLastPage(ps, N) ==
    /\ N \in 1..Len(ps)
    /\ ps[N].meta = "last"
    /\ \A q \in 1..(N - 1) : ps[q].meta = "more"

\* the consumer has pulled until the sequence reported its end
Exhausted == gen.completion = "return" /\ consumer.last = "done"

\* C1: when page N is the first page whose hasMore is false, the driver never
\* issues more than N page requests and hands the consumer a prefix of the
\* concatenation of the data arrays of pages 1..N; a consumer that pulls to
\* exhaustion has caused exactly N requests and received exactly that
\* concatenation, nothing dropped, duplicated or reordered.
C1_ExhaustiveConcatenation ==
    \A N \in 1..Len(Script) :
        FirstLastPage(Script, N) =>
            /\ Len(requests) <= N
            /\ IsPrefix(received, ConcatData(Script, N))
            /\ gen.completion # "throw"
            /\ Exhausted => Len(requests) = N /\ received = ConcatData(Script, N)

C1_Witness ==
    /\ FirstLastPage(Script, 3)
    /\ Exhausted
    /\ Len(requests) = 3
    /\ Len(received) >= 4

\* C2: the k-th page request of an iteration (0-indexed) goes to the sets
\* path with exactly the caller's parameters plus limit = 100 and
\* offset = k * 100, whatever limit and offset the server's meta reports.
C2_OffsetLaw ==
    \A j \in 1..Len(requests) :
        /\ requests[j].path = "/v1/sets"
        /\ requests[j].params = [game |-> params.game, limit |-> 100, offset |-> (j - 1) * 100]

C2_Witness ==
    /\ Len(requests) = 3
    /\ requests[3].params.offset = 200
    /\ gen.pc = "yield"
    /\ Has(gen.response, "pagination")
    /\ gen.response.pagination.limit = 2
    /\ gen.response.pagination.offset = 3

\* the two mocked pages of the end-to-end scenario
TestScript == <<[kind |-> "ok", n |-> 1, meta |-> "more"], [kind |-> "ok", n |-> 1, meta |-> "last"]>>

\* the scenario's pages carry meta {total 2, limit 1, offset 0, hasMore true}
\* and {total 2, limit 1, offset 1, hasMore false}
TestScriptAsStated ==
    /\ PageEnvelope(TestScript, 1, 1).meta = [total |-> 2, limit |-> 1, offset |-> 0, hasMore |-> TRUE]
    /\ PageEnvelope(TestScript, 2, 2).meta = [total |-> 2, limit |-> 1, offset |-> 1, hasMore |-> FALSE]
    /\ PageEnvelope(TestScript, 1, 1).data = <<1>>
    /\ PageEnvelope(TestScript, 2, 2).data = <<2>>

\* C3 as stated: in the two-page scenario, iterating to exhaustion yields
\* exactly the two sets in order, issues exactly 2 requests, and the second
\* request carries offset = 1.
C3_SecondOffsetIsOne ==
    (Script = TestScript /\ Exhausted) =>
        /\ received = <<1, 2>>
        /\ Len(requests) = 2
        /\ requests[2].params.offset = 1

\* C3 amended: in the two-page scenario, iterating to exhaustion yields
\* exactly the two sets in order and issues exactly 2 requests; the second
\* request carries offset = 100, the driver's page size, not the offset 1
\* that the server's meta reports.
C3_SecondOffsetIsPageSize ==
    (Script = TestScript /\ Exhausted) =>
        /\ TestScriptAsStated
        /\ received = <<1, 2>>
        /\ Len(requests) = 2
        /\ requests[1].params = [game |-> params.game, limit |-> 100, offset |-> 0]
        /\ requests[2].params = [game |-> params.game, limit |-> 100, offset |-> 100]

C3_Witness == Script = TestScript /\ Exhausted /\ Len(received) = 2

Stopped == consumer.state = "stopped"

\* C4 as stated: once the consumer has stopped, no further page request is
\* issued, and a consumer that stops after the first yielded element of a
\* 3-page sequence has caused at most 1 page request.
C4_AtMostOneRequest ==
    (Stopped /\ Len(received) = 1 /\ Len(Script) = 3) => Len(requests) <= 1

\* C4 amended: once the consumer has stopped pulling, the driver never issues
\* another page request; a consumer that stops after the first yielded
\* element of a 3-page sequence whose first page is not empty has caused
\* at most 1 page request.
C4_NoRequestAfterStop ==
    /\ [][Stopped => requests' = requests]_vars
    /\ []((Stopped /\ Len(received) = 1 /\ Len(Script) = 3 /\ Script[1].n > 0)
            => Len(requests) <= 1)

C4_Witness ==
    /\ Stopped
    /\ Len(received) = 1
    /\ Len(Script) = 3
    /\ Script[1].n = 1
    /\ Script[1].meta = "more"
    /\ Len(requests) = 1

\* the page that answered the j-th request
Answered(j) == Script[Min(j, Len(Script))]

\* the requests that have been answered
AnsweredRequests == IF gen.pc = "await" THEN 1..(Len(requests) - 1) ELSE 1..Len(requests)

ApiFailure(page) == page.kind \in {"apiError", "bareError"}
TransportFailure(page) == page.kind \in {"http", "network"}

\* C5: when a page comes back as an API-level failure the sequence is aborted
\* and the error reaches the consumer: the generator ends by throwing, and no
\* request follows the failed page.
C5_ApiFailureAborts ==
    \A j \in AnsweredRequests :
        ApiFailure(Answered(j)) =>
            /\ gen.completion = "throw"
            /\ Len(requests) = j

\* the error HttpClient.get raises for a failed page
TransportErrorOf(page) ==
    IF page.kind = "network" THEN NetworkError ELSE Error("Error", "Rate limit exceeded")

\* C6: when the fetch of page k fails at the transport level, the pull that
\* waited for it throws the transport's own error, unchanged, and the
\* consumer has by then received exactly the elements of the pages before
\* page k, in order; the generator has ended by throwing.
C6_TransportFailureThrown ==
    /\ [][(gen.pc = "await" /\ TransportFailure(Answered(Len(requests))))
            => /\ consumer'.last = "thrown"
               /\ consumer'.error = TransportErrorOf(Answered(Len(requests)))
               /\ gen'.completion = "throw"
               /\ received' = received
               /\ requests' = requests]_vars
    /\ []((gen.pc = "completed" /\ Len(requests) > 0 /\ TransportFailure(Answered(Len(requests))))
            => /\ gen.completion = "throw"
               /\ received = ConcatData(Script, Len(requests) - 1))

C6_Witness ==
    /\ consumer.last = "thrown"
    /\ consumer.error = Error("Error", "Rate limit exceeded")
    /\ Len(requests) = 3
    /\ Script[3].kind = "http"
    /\ received = <<1, 2, 3>>

\* a transport failure has ended the sequence while the script has later pages
FailedBeforeEnd ==
    /\ gen.completion = "throw"
    /\ TransportFailure(Answered(Len(requests)))
    /\ Len(requests) < Len(Script)

\* C7 as stated: a transport failure on one page does not abort the later
\* pages: the consumer that catches it and pulls again is not told that the
\* sequence has ended.
C7_FailureKeepsSequenceOpen ==
    [][(FailedBeforeEnd /\ consumer' # consumer) => consumer'.last # "done"]_vars

\* C7 amended: a transport failure on one page fetch ends the sequence: the
\* pull that waited for the fetch throws, and every later pull on the same
\* sequence reports that it is done, issuing no page request and yielding no
\* element.
C7_FailureEndsSequence ==
    [][gen.completion = "throw"
        => /\ consumer'.last = "done"
           /\ gen' = gen
           /\ requests' = requests
           /\ received' = received]_vars

C7_Witness == FailedBeforeEnd /\ consumer.last = "done" /\ Len(received) > 0

\* C8: against a store of T sets that serves at most serverMax sets a page, a
\* full iteration yields every one of the T sets exactly once.
C8_FetchesAllSets ==
    Exhausted => received = [j \in 1..server.T |-> j]

(***************************************************************************)
(* Properties of the normalizer.                                           *)
(***************************************************************************)
Normalized == result # NoResult /\ ~result.threw

PaginationFields == {"total", "limit", "offset", "hasMore"}

\* C9: the normalized response has pagination exactly when the envelope has a
\* meta block, and then total, limit, offset and hasMore of pagination equal
\* those of meta; without meta there is no pagination object at all.
C9_PaginationIffMeta ==
    Normalized =>
        /\ Has(result.value, "pagination") <=> Has(envelope, "meta")
        /\ Has(envelope, "meta") =>
              /\ DOMAIN result.value.pagination = DOMAIN envelope.meta
              /\ \A f \in PaginationFields \cap DOMAIN envelope.meta :
                    result.value.pagination[f] = envelope.meta[f]

C9_Witness ==
    /\ Normalized
    /\ Has(envelope, "meta")
    /\ result.value.pagination = [total |-> 3, limit |-> 20, offset |-> 1, hasMore |-> TRUE]

\* C10: usage carries every field of the raw _metadata block with the same
\* value, and a response that succeeded at the transport level always has it.
C10_UsageFieldForField ==
    Normalized =>
        \A f \in DOMAIN envelope._metadata :
            /\ Has(result.value.usage, f)
            /\ result.value.usage[f] = envelope._metadata[f]

(***************************************************************************)
(* Error envelopes through the normalizer.                                 *)
(***************************************************************************)
BareErrorEnvelope == [data |-> <<>>, error |-> MissingGame, code |-> "INVALID_REQUEST"]

\* C11: the envelope of a 2xx answer that holds only an empty data array,
\* an error and a code (no meta, no _metadata) is normalized without a
\* throw: the response has the empty data array, no pagination, and the
\* error and the code as given.
C11_BareErrorNormalized ==
    (envelope = BareErrorEnvelope /\ result # NoResult) =>
        /\ ~result.threw
        /\ result.value.data = <<>>
        /\ ~Has(result.value, "pagination")
        /\ Has(result.value, "error") /\ result.value.error = MissingGame
        /\ Has(result.value, "code") /\ result.value.code = "INVALID_REQUEST"

\* C12: for every raw envelope with a non-empty error, the normalized
\* response carries the same error, and the same code when the raw code is
\* non-empty, with data passed through unchanged; the code key appears only
\* when the raw field is present and non-empty.
C12_ErrorPassedThrough ==
    (Truthy(envelope, "error") /\ result # NoResult) =>
        /\ ~result.threw
        /\ Has(result.value, "error") /\ result.value.error = envelope.error
        /\ Has(result.value, "code") <=> Truthy(envelope, "code")
        /\ Has(result.value, "code") => result.value.code = envelope.code
        /\ Has(result.value, "data") <=> Has(envelope, "data")
        /\ Has(result.value, "data") => result.value.data = envelope.data

(***************************************************************************)
(* Call parameters.  The value of a parameter field carries its JavaScript *)
(* type, so that undefined, null, a string, a number, a boolean and an     *)
(* array of strings are told apart.  Here a key of an object may be        *)
(* present with the value undefined.                                       *)
(***************************************************************************)
Undefined == [type |-> "undefined"]
Null == [type |-> "null"]
Str(s) == [type |-> "string", v |-> s]
Num(n) == [type |-> "number", v |-> n]
Bool(b) == [type |-> "boolean", v |-> b]
Arr(a) == [type |-> "array", v |-> a]

\* o.k
Get(o, k) == IF Has(o, k) THEN o[k] ELSE Undefined

\* Array.prototype.join(',') on an array of strings
RECURSIVE Join(_)
Join(a) ==
    IF Len(a) = 0 THEN ""
    ELSE IF Len(a) = 1 THEN a[1]
    ELSE a[1] \o "," \o Join(Tail(a))

\* String(value)
String(value) ==
    CASE value.type = "undefined" -> "undefined"
      [] value.type = "null" -> "null"
      [] value.type = "string" -> value.v
      [] value.type = "number" -> ToString(value.v)
      [] value.type = "boolean" -> (IF value.v THEN "true" ELSE "false")
      [] value.type = "array" -> Join(value.v)

\* if (value)
JsTruthy(value) ==
    CASE value.type = "undefined" -> FALSE
      [] value.type = "null" -> FALSE
      [] value.type = "string" -> value.v # ""
      [] value.type = "number" -> value.v # 0
      [] value.type = "boolean" -> value.v
      [] value.type = "array" -> TRUE

(***************************************************************************)
(* The client and what it hands to fetch.                                  *)
(***************************************************************************)
API_BASE_URL == "https://api.justtcg.com"

MissingKey == Error("Error", "Authentication error: API key is missing.")

\* a constructor that takes the environment variable before the config
JustTCG_constructor_EnvFirst(config, processEnv) ==
    LET apiKey == Opt(processEnv, "JUSTTCG_API_KEY", "apiKey") @@ Opt(config, "apiKey", "apiKey")
    IN  IF ~Truthy(apiKey, "apiKey") THEN Throw(MissingKey)
        ELSE Return([httpClient |-> [apiKey |-> apiKey.apiKey, baseUrl |-> API_BASE_URL]])

\* a constructor that does not look at the key it resolved
JustTCG_constructor_Unvalidated(config, processEnv) ==
    LET apiKey == Opt(config, "apiKey", "apiKey") @@ Opt(processEnv, "JUSTTCG_API_KEY", "apiKey")
    IN  Return([httpClient |-> [apiKey |-> Get(apiKey, "apiKey"), baseUrl |-> API_BASE_URL]])

\* new JustTCG(config): config.apiKey ?? process.env.JUSTTCG_API_KEY
JustTCG_constructor(config, processEnv) ==
    LET apiKey == Opt(config, "apiKey", "apiKey") @@ Opt(processEnv, "JUSTTCG_API_KEY", "apiKey")
    IN  IF ~Truthy(apiKey, "apiKey") THEN Throw(MissingKey)
        ELSE Return([httpClient |-> [apiKey |-> apiKey.apiKey, baseUrl |-> API_BASE_URL]])

getHeaders(httpClient) ==
    ("Content-Type" :> "application/json") @@ ("x-api-key" :> httpClient.apiKey)

\* the query string HttpClient.get builds: a field whose value is undefined
\* or null is skipped, every other field is appended as String(value)
searchParams(ps) ==
    IF ps = Undefined THEN <<>>
    ELSE [k \in {f \in DOMAIN ps : ps[f] # Undefined /\ ps[f] # Null} |-> String(ps[k])]

\* HttpClient.get up to the call of fetch
HttpClient_get_fetch(httpClient, path, ps) ==
    [method |-> "GET", url |-> httpClient.baseUrl \o path,
     headers |-> getHeaders(httpClient), query |-> searchParams(ps)]

IdFields == {"tcgplayerId", "tcgplayerSkuId", "cardId", "variantId", "scryfallId", "mtgjsonId"}
ListFields == {"printing", "condition", "include_statistics"}

\* a list field of a batch item sent as the array it is
stringifiedList_Intact(value) == value

\* Array.isArray(x) ? x.join(',') : x
stringifiedList(value) ==
    IF value.type = "array" THEN Str(Join(value.v)) ELSE value

\* the body.map callback of HttpClient.post
stringifiedItem(item) ==
    [k \in {f \in IdFields : JsTruthy(Get(item, f))} |-> item[k]]
    @@ [k \in {f \in ListFields : JsTruthy(Get(item, f))} |-> stringifiedList(item[k])]
    @@ (IF Get(item, "include_price_history") # Undefined
        THEN ("include_price_history" :> Str(String(item.include_price_history)))
        ELSE <<>>)

\* HttpClient.post up to the call of fetch
HttpClient_post_fetch(httpClient, path, body) ==
    [method |-> "POST", url |-> httpClient.baseUrl \o path,
     headers |-> getHeaders(httpClient),
     body |-> [j \in 1..Len(body) |-> stringifiedItem(body[j])]]

\* HttpClient.post from the point where fetch settles
HttpClient_post(fetched) ==
    IF fetched.rejects THEN Throw(fetched.error)
    ELSE IF ~fetched.ok
         THEN IF Json(fetched).threw THEN Json(fetched)
              ELSE Throw(Error("Error",
                        IF Truthy(Json(fetched).value, "error")
                        THEN Json(fetched).value.error
                        ELSE "An API error occurred"))
         ELSE Json(fetched)

(***************************************************************************)
(* The resources.  An invocation is an operation with the objects the      *)
(* caller passes; the operation runs synchronously up to its call of       *)
(* fetch and finishes when fetch settles.                                  *)
(***************************************************************************)
\* a _get that sends the object as it was given
BaseResource_get_params_Unrenamed(ps) == ps

\* BaseResource._get: the params object after the rename of query
BaseResource_get_params(ps) ==
    IF ps # Undefined /\ Has(ps, "query") /\ ps.query.type = "string"
    THEN ("q" :> ps.query) @@ [k \in DOMAIN ps \ {"query"} |-> ps[k]]
    ELSE ps

BaseResource_get(httpClient, path, ps) ==
    HttpClient_get_fetch(httpClient, pathPrefix \o path, BaseResource_get_params(ps))

BaseResource_post(httpClient, path, body) ==
    HttpClient_post_fetch(httpClient, pathPrefix \o path, body)

\* CardsResource.search: { query, ...options }
CardsResource_search_params(query, options) ==
    IF options = Undefined THEN ("query" :> query) ELSE options @@ ("query" :> query)

Invocation(op, args) == [op |-> op, args |-> args]

\* the call of fetch an operation makes
Operation_fetch(httpClient, inv) ==
    CASE inv.op = "games.list" -> BaseResource_get(httpClient, "/games", Undefined)
      [] inv.op = "sets.list" -> BaseResource_get(httpClient, "/sets", inv.args[1])
      [] inv.op = "cards.get" -> BaseResource_get(httpClient, "/cards", inv.args[1])
      [] inv.op = "cards.search" ->
            BaseResource_get(httpClient, "/cards",
                             CardsResource_search_params(inv.args[1], inv.args[2]))
      [] inv.op = "cards.getByBatch" -> BaseResource_post(httpClient, "/cards", inv.args[1])

\* the caller's objects once the operation has made its call of fetch
Operation_args(inv) ==
    IF inv.op \in {"sets.list", "cards.get"}
    THEN <<BaseResource_get_params(inv.args[1])>>
    ELSE inv.args

\* what the operation returns or throws once fetch has settled
Operation_result(inv, fetched) ==
    LET rawResponse == IF inv.op = "cards.getByBatch"
                       THEN HttpClient_post(fetched) ELSE HttpClient_get(fetched)
    IN  IF rawResponse.threw THEN rawResponse ELSE handleResponse(rawResponse.value)

\* a transport that sends the request again when it failed
RetryFetches_OnFailure(request, fetched) ==
    IF fetched.rejects \/ ~fetched.ok THEN <<request>> ELSE <<>>

\* the calls of fetch made after the first has settled: none
RetryFetches(request, fetched) == <<>>

Ready(i) == clients[i] # NoClient /\ ~clients[i].outcome.threw

\* new JustTCG(config)
Construct(i, config) ==
    /\ clients[i] = NoClient
    /\ clients' = [clients EXCEPT ![i] =
                      [config |-> config, env |-> env,
                       outcome |-> JustTCG_constructor(config, env)]]
    /\ UNCHANGED <<env, network, call>>
    /\ UNCHANGED <<server, params, gen, requests, received, consumer, envelope, result,
                   other, history>>

\* the program sets or deletes process.env.JUSTTCG_API_KEY
SetEnv(e) ==
    /\ e # env
    /\ env' = e
    /\ UNCHANGED <<clients, network, call>>
    /\ UNCHANGED <<server, params, gen, requests, received, consumer, envelope, result,
                   other, history>>

\* a caller invokes an operation of instance i; it runs up to its fetch
Invoke(i, inv) ==
    /\ Ready(i)
    /\ IF call = NoCall THEN TRUE ELSE call.state = "done"
    /\ network' = Append(network,
                         [client |-> i] @@
                         Operation_fetch(clients[i].outcome.value.httpClient, inv))
    /\ call' = [client |-> i, op |-> inv.op, given |-> inv.args,
                args |-> Operation_args(inv), before |-> Len(network),
                state |-> "pending"]
    /\ UNCHANGED <<env, clients>>
    /\ UNCHANGED <<server, params, gen, requests, received, consumer, envelope, result,
                   other, history>>

\* fetch settles and the operation finishes
Settle(fetched) ==
    /\ call # NoCall
    /\ call.state = "pending"
    /\ network' = network \o RetryFetches(network[Len(network)], fetched)
    /\ call' = [client |-> call.client, op |-> call.op, given |-> call.given,
                args |-> call.args, before |-> call.before, state |-> "done",
                fetched |-> fetched,
                outcome |-> Operation_result(Invocation(call.op, call.given), fetched)]
    /\ UNCHANGED <<env, clients>>
    /\ UNCHANGED <<server, params, gen, requests, received, consumer, envelope, result,
                   other, history>>

(***************************************************************************)
(* Runs of client construction: a program sets its environment, constructs *)
(* up to two clients and sends requests through them.                      *)
(***************************************************************************)
MaxCalls == 2      \* requests a program sends in a construction run

Envs ==
    Optional("JUSTTCG_API_KEY", {"", "env-key", "other-env-key"})

Configs == Optional("apiKey", {"", "config-key"})

OkEnvelope == [data |-> <<1>>, _metadata |-> Metadata(1)]

FewInvocations ==
    {Invocation("games.list", <<>>),
     Invocation("cards.getByBatch", << <<[tcgplayerId |-> Str("123")]>> >>)}

FewFetches ==
    {FetchSettles(TRUE, TRUE, OkEnvelope),
     FetchSettles(FALSE, TRUE, [error |-> "Invalid API key"])}

InitClient ==
    /\ server = IdleServer
    /\ DriverInit
    /\ envelope = NoEnvelope
    /\ result = NoResult
    /\ env \in Envs
    /\ clients = [i \in Instances |-> NoClient]
    /\ network = <<>>
    /\ call = NoCall
    /\ Alone

NextClient ==
    \/ \E i \in Instances, config \in Configs : Construct(i, config)
    \/ \E e \in Envs : SetEnv(e)
    \/ \E i \in Instances, inv \in FewInvocations :
            Len(network) < MaxCalls /\ Invoke(i, inv)
    \/ \E fetched \in FewFetches : Settle(fetched)

SpecClient == InitClient /\ [][NextClient]_vars

(***************************************************************************)
(* Runs of one operation: a client constructed with a key, one invocation  *)
(* drawn from bounded sets of parameter objects, one outcome of fetch.     *)
(***************************************************************************)
MaxItems == 2      \* items in one batch lookup

TestConfig == [apiKey |-> "test-api-key"]

GetCardsParamsSet ==
    {q @@ g @@ l @@ c @@ h :
        q \in Optional("query", {Undefined, Null, Str(""), Str("Charizard")}),
        g \in Optional("game", {Str("Pokemon")}),
        l \in Optional("limit", {Null, Num(10)}),
        c \in Optional("condition", {Undefined, Arr(<<>>), Arr(<<"NM", "LP">>)}),
        h \in Optional("include_price_history", {Bool(FALSE), Bool(TRUE)})}

SearchCardsOptionsSet ==
    {Undefined} \cup
    {g @@ l @@ p :
        g \in Optional("game", {Str("Pokemon")}),
        l \in Optional("limit", {Num(20)}),
        p \in Optional("printing", {Arr(<<"Foil", "Normal">>)})}

SetsParamsSet ==
    {Undefined} \cup
    {g @@ l :
        g \in Optional("game", {Undefined, Null, Str("Pokemon")}),
        l \in Optional("limit", {Num(20)})}

BatchLookupItems ==
    {t @@ p @@ h :
        t \in Optional("tcgplayerId", {Str("123")}),
        p \in Optional("printing", {Arr(<<"Foil", "1st Edition">>)}),
        h \in Optional("include_price_history", {Undefined, Null, Bool(FALSE)})}
    \cup {[cardId |-> Str("card-abc"), condition |-> Arr(<<"NM">>),
           include_statistics |-> Arr(<<"7d", "30d">>), updated_after |-> Num(1700000000)],
          [tcgplayerId |-> Null, printing |-> Undefined],
          [cardId |-> Str(""), printing |-> Arr(<<>>), include_price_history |-> Bool(TRUE)]}

Batches == UNION {[1..n -> BatchLookupItems] : n \in 0..MaxItems}

Invocations ==
    {Invocation("games.list", <<>>)}
    \cup {Invocation("sets.list", <<ps>>) : ps \in SetsParamsSet}
    \cup {Invocation("cards.get", <<ps>>) : ps \in GetCardsParamsSet}
    \cup {Invocation("cards.search", <<Str(q), options>>) :
            q \in {"", "Pikachu"}, options \in SearchCardsOptionsSet}
    \cup {Invocation("cards.getByBatch", <<items>>) : items \in Batches}

Fetches ==
    {FetchRejects(NetworkError),
     FetchSettles(TRUE, TRUE, OkEnvelope),
     FetchSettles(TRUE, TRUE, [data |-> <<>>, _metadata |-> Metadata(1),
                               error |-> MissingGame, code |-> "INVALID_REQUEST"]),
     FetchSettles(TRUE, FALSE, <<>>),
     FetchSettles(FALSE, TRUE, [error |-> "Rate limit exceeded"]),
     FetchSettles(FALSE, TRUE, [error |-> ""]),
     FetchSettles(FALSE, TRUE, [message |-> "Not Found"]),
     FetchSettles(FALSE, FALSE, <<>>)}

InitCall ==
    /\ server = IdleServer
    /\ DriverInit
    /\ envelope = NoEnvelope
    /\ result = NoResult
    /\ env = <<>>
    /\ clients = [i \in Instances |->
                    IF i = 1
                    THEN [config |-> TestConfig, env |-> <<>>,
                          outcome |-> JustTCG_constructor(TestConfig, <<>>)]
                    ELSE NoClient]
    /\ network = <<>>
    /\ call = NoCall
    /\ Alone

NextCall ==
    \/ \E inv \in Invocations : call = NoCall /\ Invoke(1, inv)
    \/ \E fetched \in Fetches : Settle(fetched)

SpecCall == InitCall /\ [][NextCall]_vars

(***************************************************************************)
(* The credential.                                                         *)
(***************************************************************************)
Constructed(i) == clients[i] # NoClient

\* the requests instance i has handed to fetch
SentBy(i) == {n \in 1..Len(network) : network[n].client = i}

\* neither the config nor the environment held a key at the construction
NoKeyAvailable(c) ==
    ~Has(c.config, "apiKey") /\ ~Has(c.env, "JUSTTCG_API_KEY")

\* C13: constructing a client with no API key available (no key in the
\* config, no JUSTTCG_API_KEY in the environment) throws the error
\* 'Authentication error: API key is missing.'; no client object comes into
\* existence and the construction leads to no network call.
C13_MissingKeyFails ==
    \A i \in Instances :
        (Constructed(i) /\ NoKeyAvailable(clients[i])) =>
            /\ clients[i].outcome.threw
            /\ clients[i].outcome.error.message = "Authentication error: API key is missing."
            /\ ~Has(clients[i].outcome, "value")
            /\ SentBy(i) = {}

\* a construction without a key has failed while the other instance works
C13_Witness ==
    \E i \in Instances :
        /\ Constructed(i) /\ NoKeyAvailable(clients[i])
        /\ clients[i].outcome.threw
        /\ \E j \in Instances \ {i} : SentBy(j) # {}

\* the key of a construction: the config key when given, else the
\* environment's at the time of the construction
KeyOf(c) ==
    IF Has(c.config, "apiKey") THEN c.config.apiKey ELSE c.env["JUSTTCG_API_KEY"]

\* C14: the key is resolved once, at construction, the config key taking
\* priority over the environment variable; every request the instance
\* issues later, GET or POST, carries that key in the x-api-key header
\* together with the JSON content type, whatever happens to the
\* environment or to other instances afterwards.
C14_KeyFixedAtConstruction ==
    \A n \in 1..Len(network) :
        /\ DOMAIN network[n].headers = {"Content-Type", "x-api-key"}
        /\ network[n].headers["Content-Type"] = "application/json"
        /\ network[n].headers["x-api-key"] = KeyOf(clients[network[n].client])

\* an instance keyed from the environment has sent a GET and a POST after
\* the environment changed, next to an instance with the config key
C14_Witness ==
    \E i \in Instances :
        /\ Constructed(i) /\ Ready(i)
        /\ ~Has(clients[i].config, "apiKey")
        /\ env # clients[i].env
        /\ \E a, b \in SentBy(i) :
                a < b /\ network[a].method = "GET" /\ network[b].method = "POST"
        /\ \E j \in Instances \ {i} :
                /\ Constructed(j) /\ Ready(j)
                /\ Has(clients[j].config, "apiKey") /\ Has(clients[j].env, "JUSTTCG_API_KEY")
                /\ KeyOf(clients[j]) # KeyOf(clients[i])

(***************************************************************************)
(* What goes on the wire.                                                  *)
(***************************************************************************)
Invoked == call # NoCall

\* the request the invoked operation handed to fetch
Wire == network[call.before + 1]

Absent(value) == value = Undefined \/ value = Null

\* the parameter object the caller gave to a GET operation (the options of
\* a search), the empty object when none was given
GivenParams ==
    LET ps == CASE call.op = "games.list" -> Undefined
                [] call.op = "cards.search" -> call.given[2]
                [] OTHER -> call.given[1]
    IN  IF ps = Undefined THEN <<>> ELSE ps

IsGet == call.op # "cards.getByBatch"

\* C15: a field whose value is absent (undefined or null) never appears as
\* a key of the serialized payload: not in the query string of a GET, not
\* in an item of the body of a batch-lookup POST.
C15_AbsentFieldsOmitted ==
    Invoked =>
        IF IsGet
        THEN \A k \in DOMAIN GivenParams :
                Absent(GivenParams[k]) => ~Has(Wire.query, k)
        ELSE \A j \in 1..Len(call.given[1]) :
                \A k \in DOMAIN call.given[1][j] :
                    Absent(call.given[1][j][k]) => ~Has(Wire.body[j], k)

\* C16: serializing and sending never changes the caller's parameter
\* object: after cards.get(params), cards.search(query, options),
\* sets.list(params) or getByBatch(items) has made its request, returned or
\* thrown, the objects the caller passed have the keys and values they had.
C16_CallerObjectUntouched ==
    Invoked => call.args = call.given

\* the fields a GET operation is asked to send: the caller's object, with
\* the query argument for a search
AskedParams ==
    IF call.op = "cards.search"
    THEN [k \in DOMAIN GivenParams \cup {"query"} |->
            IF k = "query" THEN call.given[1] ELSE GivenParams[k]]
    ELSE GivenParams

HasQueryString == Has(AskedParams, "query") /\ AskedParams.query.type = "string"

\* C17: the only renamed field is query: a string query is sent under the
\* key q with the same value and no key query is sent; every other present
\* field is sent under its own name with its value, and nothing else is
\* sent.
C17_OnlyQueryRenamed ==
    (Invoked /\ IsGet) =>
        /\ HasQueryString =>
                /\ Has(Wire.query, "q") /\ Wire.query.q = AskedParams.query.v
                /\ ~Has(Wire.query, "query")
        /\ \A k \in DOMAIN AskedParams \ {"query"} :
                ~Absent(AskedParams[k]) =>
                    Has(Wire.query, k) /\ Wire.query[k] = String(AskedParams[k])
        /\ DOMAIN Wire.query \subseteq
                (DOMAIN AskedParams \ {"query"}) \cup (IF HasQueryString THEN {"q"} ELSE {})

\* cards.get({ query: 'Charizard', limit: 10, ... }) went out as q=Charizard&limit=10
C17_Witness ==
    /\ Invoked /\ call.op = "cards.get"
    /\ HasQueryString /\ AskedParams.query.v = "Charizard"
    /\ Has(AskedParams, "limit") /\ AskedParams.limit = Num(10)
    /\ Wire.query.q = "Charizard" /\ Wire.query.limit = "10"

IsArray(o, k) == Has(o, k) /\ o[k].type = "array"

\* in a URL query an array field is one comma-joined string
ArraysJoinedInQuery ==
    \A k \in DOMAIN GivenParams :
        IsArray(GivenParams, k) =>
            Has(Wire.query, k) /\ Wire.query[k] = Join(GivenParams[k].v)

\* C18 as stated: an array field (condition, printing, include_statistics)
\* is left intact as an array in the JSON body of a batch lookup, and is
\* joined into one delimited string for a URL query.
C18_ArraysIntactInBody ==
    Invoked =>
        IF IsGet THEN ArraysJoinedInQuery
        ELSE \A j \in 1..Len(call.given[1]) :
                \A k \in ListFields :
                    IsArray(call.given[1][j], k) =>
                        /\ Has(Wire.body[j], k)
                        /\ Wire.body[j][k].type = "array"
                        /\ Wire.body[j][k].v = call.given[1][j][k].v

\* C18 amended: an array field is joined into one comma-delimited string in
\* both places, the JSON body of a batch lookup and the URL query.
C18_ArraysJoinedInBody ==
    Invoked =>
        IF IsGet THEN ArraysJoinedInQuery
        ELSE \A j \in 1..Len(call.given[1]) :
                \A k \in ListFields :
                    IsArray(call.given[1][j], k) =>
                        /\ Has(Wire.body[j], k)
                        /\ Wire.body[j][k] = Str(Join(call.given[1][j][k].v))

\* a batch item with printing ['Foil', '1st Edition'] went out with the
\* string 'Foil,1st Edition'
C18_Witness ==
    /\ Invoked /\ ~IsGet
    /\ \E j \in 1..Len(call.given[1]) :
            /\ IsArray(call.given[1][j], "printing")
            /\ Len(call.given[1][j].printing.v) = 2
            /\ Wire.body[j].printing = Str("Foil,1st Edition")

(***************************************************************************)
(* Failures of the transport and the number of requests.                   *)
(***************************************************************************)
Done == Invoked /\ call.state = "done"

\* fetch settled with a status outside 2xx
NonOk == Done /\ ~call.fetched.rejects /\ ~call.fetched.ok

\* C19: a non-2xx status, on a GET or a POST, makes the operation throw an
\* error whose message is the error field the server supplied when the
\* body is JSON that has one, and the generic 'An API error occurred'
\* otherwise: when the body is not parseable JSON or has no error field.
C19_NonOkMessage ==
    NonOk =>
        /\ call.outcome.threw
        /\ call.outcome.error.message =
                IF call.fetched.json /\ Truthy(call.fetched.body, "error")
                THEN call.fetched.body.error
                ELSE "An API error occurred"

\* the calls of fetch the invoked operation has made
FetchCalls == Len(network) - call.before

\* C20: an invocation of games.list, sets.list, cards.get, cards.search or
\* cards.getByBatch makes exactly one network call, whether it succeeds,
\* returns an API-level failure or throws; nothing is sent again.
C20_OneCallPerInvocation ==
    Invoked => FetchCalls = 1

\* an operation has thrown on a failed request and made one call
C20_Witness ==
    /\ Done /\ call.outcome.threw
    /\ ~call.fetched.rejects /\ ~call.fetched.ok
    /\ FetchCalls = 1

(***************************************************************************)
(* The batch lookup.                                                       *)
(***************************************************************************)
BatchFields ==
    {"tcgplayerId", "tcgplayerSkuId", "cardId", "variantId", "scryfallId", "mtgjsonId",
     "printing", "condition", "updated_after", "include_price_history",
     "include_statistics"}

IsBatch == Invoked /\ call.op = "cards.getByBatch"

\* C21: the body of the POST of getByBatch has one element per item, in the
\* order of the items, and every identifier or option the caller set on an
\* item (tcgplayerId, tcgplayerSkuId, cardId, variantId, scryfallId,
\* mtgjsonId, printing, condition, updated_after, include_price_history,
\* include_statistics) is present in the item's element.
C21_BatchItemFieldsSent ==
    IsBatch =>
        /\ Len(Wire.body) = Len(call.given[1])
        /\ \A j \in 1..Len(call.given[1]) :
                \A k \in DOMAIN call.given[1][j] \cap BatchFields :
                    ~Absent(call.given[1][j][k]) => Has(Wire.body[j], k)

\* fetch answered 2xx with an envelope of data and _metadata and no meta
AnsweredWithoutMeta ==
    /\ Done /\ ~call.fetched.rejects /\ call.fetched.ok /\ call.fetched.json
    /\ Has(call.fetched.body, "data") /\ Has(call.fetched.body, "_metadata")
    /\ ~Has(call.fetched.body, "meta")

\* C22: getByBatch(items) issues one POST request to the cards path; when
\* the server answers 2xx with data and _metadata and no meta, it resolves
\* to a normalized response whose data is the server's data array and
\* whose pagination is undefined.
C22_BatchOnePostNoPagination ==
    IsBatch =>
        /\ FetchCalls = 1
        /\ Wire.method = "POST"
        /\ Wire.url = "https://api.justtcg.com/v1/cards"
        /\ AnsweredWithoutMeta =>
                /\ ~call.outcome.threw
                /\ Has(call.outcome.value, "data")
                /\ call.outcome.value.data = call.fetched.body.data
                /\ ~Has(call.outcome.value, "pagination")

\* a batch of two items was answered with data and a usage block
C22_Witness ==
    /\ IsBatch /\ Len(call.given[1]) = 2
    /\ AnsweredWithoutMeta /\ Len(call.fetched.body.data) > 0
    /\ ~call.outcome.threw

(***************************************************************************)
(* The shape of one iteration.                                             *)
(***************************************************************************)
\* the data of the pages that answer the first n requests, in order
RECURSIVE DataOfRequests(_)
DataOfRequests(n) ==
    IF n = 0 THEN <<>>
    ELSE DataOfRequests(n - 1) \o PageData(Script, Min(n, Len(Script)))

\* the requests whose answer the generator has taken in
NumAnswered == IF gen.pc = "await" THEN Len(requests) - 1 ELSE Len(requests)

\* nothing is requested before the first pull; what has been handed out is
\* the answered pages' data in order, and all that is still held back
\* belongs to the page answered last
C23_State ==
    /\ gen.pc = "start" => requests = <<>>
    /\ IsPrefix(received, DataOfRequests(NumAnswered))
    /\ NumAnswered > 0 => Len(received) >= Len(DataOfRequests(NumAnswered - 1))

\* a step that issues a request issues one, the generator then waits for
\* it inside a pull of the consumer, and every element of the pages
\* answered before has been handed out
C23_Step ==
    requests' # requests =>
        /\ Len(requests') = Len(requests) + 1
        /\ gen'.pc = "await"
        /\ consumer'.state = "pending"
        /\ received' = received
        /\ received = DataOfRequests(Len(requests))

\* C23: a fetchAll iteration is one sequential, lazy stream: creating the
\* sequence issues no request, at most one page request is in flight, the
\* request for page k+1 is issued only after every element of page k has
\* been handed to the consumer and the consumer has pulled again; elements
\* come in order and no more than one page is buffered.
C23_LazySequentialStream == []C23_State /\ [][C23_Step]_vars

\* the second page is in flight after both elements of the first were
\* handed out
C23_Witness ==
    /\ Len(requests) = 2 /\ gen.pc = "await"
    /\ Script[1].n = 2 /\ received = <<1, 2>>

\* a page that is normalized and says nothing about hasMore
Unpaged(page) ==
    page.kind \in {"ok", "apiError"} /\ page.meta \in {"none", "noHasMore"}

\* C24: when a page's normalized response has no pagination block or no
\* hasMore value, the driver takes hasMore as false: it hands out that
\* page's elements and terminates, and issues no further request.
C24_MissingHasMoreEnds ==
    \A j \in 1..NumAnswered :
        Unpaged(Answered(j)) =>
            /\ Len(requests) = j
            /\ gen.pc \in {"yield", "completed"}
            /\ consumer.last = "done" =>
                    gen.completion = "return" /\ received = DataOfRequests(j)

\* the second page of three came without hasMore and the iteration ended
\* after its two elements
C24_Witness ==
    /\ Len(Script) = 3 /\ Script[1].n = 1
    /\ Script[2] = [kind |-> "ok", n |-> 2, meta |-> "noHasMore"]
    /\ Exhausted /\ Len(requests) = 2 /\ received = <<1, 2, 3>>

\* an empty page that reports hasMore = true
EmptyMore(page) == page.kind = "ok" /\ page.n = 0 /\ page.meta = "more"

\* C25: a page whose data is empty and whose pagination.hasMore is true
\* does not end the iteration: the driver yields nothing for it, advances
\* the offset by the page size and issues the next page request.
C25_EmptyPageContinues ==
    [][(gen.pc = "await" /\ EmptyMore(Answered(Len(requests))) /\ gen' # gen) =>
            /\ received' = received
            /\ gen'.pc = "await"
            /\ gen'.offset = gen.offset + 100
            /\ requests' = Append(requests,
                    Request("/v1/sets",
                            [game |-> params.game, limit |-> 100,
                             offset |-> requests[Len(requests)].params.offset + 100]))]_vars

\* after an empty first page with hasMore = true the second page arrived
C25_Witness ==
    /\ EmptyMore(Script[1]) /\ Len(Script) >= 2 /\ Script[2].n = 2
    /\ Len(requests) = 2 /\ requests[2].params.offset = 100
    /\ gen.pc = "yield" /\ received = <<1>>

\* the first page is normalized and has no data
EmptyFirstPage == NumAnswered >= 1 /\ Script[1].kind = "ok" /\ Script[1].n = 0

\* C26 as stated: an empty first page terminates the sequence at once: the
\* consumer receives zero elements and exactly one page request is issued.
C26_EmptyFirstPageEnds ==
    EmptyFirstPage =>
        /\ gen.pc = "completed" /\ gen.completion = "return"
        /\ received = <<>>
        /\ Len(requests) = 1

\* C26 amended: an empty first page whose hasMore is false or absent
\* terminates the sequence at once: the consumer receives zero elements
\* and exactly one page request is issued.  (With hasMore = true the
\* driver goes on to the next page.)
C26_EmptyLastFirstPageEnds ==
    (EmptyFirstPage /\ Script[1].meta # "more") =>
        /\ gen.pc = "completed" /\ gen.completion = "return"
        /\ received = <<>>
        /\ Len(requests) = 1

\* an empty first page with hasMore = false ended an iteration over a
\* script of more pages
C26_Witness ==
    /\ EmptyFirstPage /\ Script[1].meta = "last" /\ Len(Script) >= 2
    /\ Exhausted /\ received = <<>> /\ Len(requests) = 1

(***************************************************************************)
(* Termination.  The consumer keeps pulling and every page fetch           *)
(* completes: the iteration runs with no break, under weak fairness of the *)
(* pull and of the answer.                                                 *)
(***************************************************************************)
LivePages ==
    {[kind |-> "ok", n |-> 0, meta |-> "more"],
     [kind |-> "ok", n |-> 1, meta |-> "more"],
     [kind |-> "ok", n |-> 1, meta |-> "last"],
     [kind |-> "ok", n |-> 0, meta |-> "none"],
     [kind |-> "http", n |-> 0, meta |-> "none"]}

LiveScripts == UNION {[1..len -> LivePages] : len \in 1..MaxPages}

InitLive ==
    /\ server \in [kind : {"script"}, pages : LiveScripts]
    /\ DriverInit
    /\ envelope = NoEnvelope
    /\ result = NoResult
    /\ ClientIdle
    /\ Alone

NextLive == Pull \/ Respond

SpecLive == InitLive /\ [][NextLive]_vars /\ WF_vars(Pull) /\ WF_vars(Respond)

\* the server comes to a page whose hasMore is false or absent
ScriptEnds == \E p \in 1..Len(Script) : Script[p].meta # "more"

\* the server reports hasMore = true on every page, for ever
AllMore == \A p \in 1..Len(Script) : Script[p].kind = "ok" /\ Script[p].meta = "more"

Terminated == gen.pc = "completed"

\* C27: if the consumer keeps pulling, every page fetch completes and the
\* server comes to a page whose hasMore is false or absent, the sequence
\* eventually terminates; the driver has no cap of its own, so under a
\* server that reports hasMore = true for ever it never terminates and
\* issues requests up to any bound set on it.
C27_TerminatesWhenServerEnds ==
    /\ ScriptEnds ~> Terminated
    /\ [](AllMore => ~Terminated)
    /\ AllMore ~> (Len(requests) = MaxRequests)

\* a three-page iteration has run to its end
C27_Witness ==
    /\ Len(Script) = 3 /\ Script[1].meta = "more" /\ Script[2].meta = "more"
    /\ Script[3].meta = "last"
    /\ Exhausted /\ Len(requests) = 3

(***************************************************************************)
(* Two iterations.  A program calls fetchAll twice on one client and       *)
(* consumes the two sequences in any interleaving.  Each call of the       *)
(* generator function has a frame of its own; the one that is not running  *)
(* is kept in other, with its parameters, its requests and its consumer.   *)
(* The server is paged: it answers a request by the page its offset names, *)
(* whichever iteration sent it.                                            *)
(***************************************************************************)
TwoPages ==
    {[kind |-> "ok", n |-> 0, meta |-> "more"],
     [kind |-> "ok", n |-> 1, meta |-> "more"],
     [kind |-> "ok", n |-> 2, meta |-> "last"]}

TwoScripts == UNION {[1..len -> TwoPages] : len \in 1..MaxPages}

OtherGame == "Magic: The Gathering"

\* the running iteration
Running ==
    [id |-> 3 - other.id, params |-> params, gen |-> gen, requests |-> requests,
     received |-> received, consumer |-> consumer]

\* a generator frame whose cursor is the one of the iteration that ran last
Resume_SharedCursor(saved, running) == [saved EXCEPT !.offset = running.offset]

\* the frame of the suspended iteration: its own locals, as it left them
Resume(saved, running) == saved

\* The program turns from one iteration to the other.
Switch ==
    /\ other # NoIteration
    /\ gen' = Resume(other.gen, gen)
    /\ params' = other.params
    /\ requests' = other.requests
    /\ received' = other.received
    /\ consumer' = other.consumer
    /\ other' = Running
    /\ UNCHANGED <<server, envelope, result, clientVars, history>>

InitTwo ==
    /\ server \in [kind : {"paged"}, pages : TwoScripts]
    /\ DriverInit
    /\ envelope = NoEnvelope
    /\ result = NoResult
    /\ ClientIdle
    /\ other = [id |-> 2, params |-> [game |-> OtherGame], gen |-> GenStart,
                requests |-> <<>>, received |-> <<>>,
                consumer |-> Idle("none", NoError)]
    /\ history = <<>>

NextTwo == Pull \/ Respond \/ Switch

SpecTwo == InitTwo /\ [][NextTwo]_vars

\* the requests of an iteration whose answer its generator has taken in
AnsweredBy(it) ==
    IF it.gen.pc = "await" THEN Len(it.requests) - 1 ELSE Len(it.requests)

\* the iteration asks and receives as it would alone
AsIfAlone(it) ==
    /\ \A j \in 1..Len(it.requests) :
            /\ it.requests[j].params.offset = (j - 1) * 100
            /\ it.requests[j].params.game = it.params.game
    /\ IsPrefix(it.received, DataOfRequests(AnsweredBy(it)))
    /\ it.gen.completion = "return" =>
            it.received = DataOfRequests(Len(it.requests))

\* C28: each call of fetchAll owns its cursor: every iteration starts at
\* offset 0, and when two iterations on one client are consumed in any
\* interleaving, each requests the offsets 0, 100, 200, ... as if it ran
\* alone and each consumer receives only the elements of its own pages.
C28_PrivateCursor ==
    other # NoIteration => AsIfAlone(Running) /\ AsIfAlone(other)

\* both iterations have their second page in flight at the same time
C28_Witness ==
    /\ other # NoIteration
    /\ gen.pc = "await" /\ Len(requests) = 2 /\ requests[2].params.offset = 100
    /\ other.gen.pc = "await" /\ Len(other.requests) = 2
    /\ other.requests[2].params.offset = 100
    /\ Len(received) > 0 /\ Len(other.received) > 0

(***************************************************************************)
(* Repeated normalization.  A program hands envelopes to handleResponse    *)
(* one after another; history keeps, for every call, the envelope given,   *)
(* what came back, and the envelope as the caller finds it afterwards.     *)
(***************************************************************************)
MaxNormalizations == 3     \* calls of handleResponse in one run

PureEnvelopes ==
    {<<>>,
     OkEnvelope,
     BareErrorEnvelope,
     [data |-> <<1, 2>>, _metadata |-> FullMetadata(0),
      meta |-> [total |-> 3, limit |-> 2, offset |-> 0, hasMore |-> TRUE]],
     [data |-> <<>>, _metadata |-> Metadata(2), error |-> MissingGame,
      code |-> "INVALID_REQUEST"],
     [data |-> <<1>>, _metadata |-> Metadata(1), meta |-> [total |-> 1]]}

\* a normalizer that serves one call and fails from then on
NormalizeCall_Once(rawResponse, past) ==
    IF Len(past) > 0
    THEN Throw(Error("Error", "already used"))
    ELSE handleResponse(rawResponse)

\* a call of handleResponse after the calls in past: the function reads
\* its parameter and nothing else
NormalizeCall(rawResponse, past) == handleResponse(rawResponse)

\* the envelope after the call: handleResponse assigns to no part of it
handleResponse_input(rawResponse) == rawResponse

\* The program normalizes one more envelope.
NormalizeNext(rawResponse) ==
    /\ Len(history) < MaxNormalizations
    /\ envelope' = handleResponse_input(rawResponse)
    /\ result' = NormalizeCall(rawResponse, history)
    /\ history' = Append(history,
                         [input |-> rawResponse,
                          output |-> NormalizeCall(rawResponse, history),
                          after |-> handleResponse_input(rawResponse)])
    /\ UNCHANGED <<server, params, gen, requests, received, consumer, clientVars, other>>

InitPure ==
    /\ server = IdleServer
    /\ DriverInit
    /\ envelope = NoEnvelope
    /\ result = NoResult
    /\ ClientIdle
    /\ Alone

NextPure == \E rawResponse \in PureEnvelopes : NormalizeNext(rawResponse)

SpecPure == InitPure /\ [][NextPure]_vars

ResourcePath(op) ==
    CASE op = "games.list" -> "/games"
      [] op = "sets.list" -> "/sets"
      [] op \in {"cards.get", "cards.search", "cards.getByBatch"} -> "/cards"

====
